---- MODULE Spec2Model ----
(***************************************************************************)
(* A model of termie/go-shutil (shutil.go, clonefile for linux+cgo).       *)
(*                                                                         *)
(* The program is a set of functions over the operating system's file     *)
(* system: CopyFile, CopyMode and Copy.  The state is therefore the file   *)
(* system: a directory tree with the working directory at the root, one    *)
(* sub-directory "d", and a few names in each directory that can hold a    *)
(* regular file, a named pipe or a symbolic link.  Every file has one      *)
(* name, so the place of an entry stands for its device and inode.  Path   *)
(* strings are sequences of components; an absolute path starts with the   *)
(* component "/".  Permissions are the owner bits of the mode (6 = rw-,     *)
(* 4 = r--), checked as for an unprivileged owner.                         *)
(***************************************************************************)
EXTENDS Integers, Sequences, FiniteSets, TLC

VARIABLES fs,      \* the file system: slot -> entry
          fs0,     \* the file system as it was before the last call
          fsFirst, \* the file system as it was before the call before the last
          call,    \* the last call: op, src, dst, followSymlinks
          res,     \* what the last call returned and what it touched
          prev,    \* what the call before the last one returned
          phase,   \* "idle", "called", "repeated", or "race"
          proc,    \* the position and locals of a CopyFile call that runs step by step
          muts     \* how often another process changed src during that call

vars == <<fs, fs0, fsFirst, call, res, prev, phase, proc, muts>>

(***************************************************************************)
(* Bounds.                                                                 *)
(***************************************************************************)
\* symbolic links followed in one path resolution before ELOOP
MaxLinks == 3
\* longest file another process may grow src to while CopyFile runs
MaxSize == 2
\* changes another process makes to src while CopyFile runs
MaxMuts == 2

(***************************************************************************)
(* The file system.                                                        *)
(***************************************************************************)
Root == <<>>
DirD == <<"d">>
Dirs == {Root, DirD}
Slots == {<<"a">>, <<"b">>, <<"d", "a">>, <<"d", "b">>, <<"d", "d">>}
NoLoc == <<"?">>

NoEntry == [kind |-> "none", data |-> <<>>, mode |-> 0, target |-> <<>>]
File(data, mode) == [kind |-> "file", data |-> data, mode |-> mode, target |-> <<>>]
Fifo == [kind |-> "fifo", data |-> <<>>, mode |-> 6, target |-> <<>>]
Link(target) == [kind |-> "symlink", data |-> <<>>, mode |-> 7, target |-> target]

IsAbs(p) == Len(p) > 0 /\ Head(p) = "/"
Comps(p) == IF IsAbs(p) THEN Tail(p) ELSE p

\* Path resolution as the kernel does it: component by component from the
\* working directory (the root) or, for the target of a symbolic link, from
\* the directory that holds the link.  The last component is followed only
\* when follow is set.  On ENOENT of the last component, loc is the place a
\* create would fill.
RECURSIVE Walk(_, _, _, _, _)
Walk(fsys, cur, comps, follow, fuel) ==
  IF comps = <<>> THEN [err |-> "nil", loc |-> cur]
  ELSE LET c == Head(comps)
           rest == Tail(comps)
           nxt == cur \o <<c>>
       IN IF nxt \in Dirs THEN Walk(fsys, nxt, rest, follow, fuel)
          ELSE IF nxt \notin Slots THEN [err |-> "ENOENT", loc |-> NoLoc]
          ELSE LET e == fsys[nxt]
               IN IF e.kind = "none"
                    THEN [err |-> "ENOENT", loc |-> IF rest = <<>> THEN nxt ELSE NoLoc]
                  ELSE IF e.kind = "symlink"
                    THEN IF rest = <<>> /\ ~follow THEN [err |-> "nil", loc |-> nxt]
                         ELSE IF fuel = 0 THEN [err |-> "ELOOP", loc |-> NoLoc]
                         ELSE Walk(fsys, IF IsAbs(e.target) THEN Root ELSE cur,
                                   Comps(e.target) \o rest, follow, fuel - 1)
                  ELSE IF rest = <<>> THEN [err |-> "nil", loc |-> nxt]
                       ELSE [err |-> "ENOTDIR", loc |-> NoLoc]

Resolve(fsys, p, follow) == Walk(fsys, Root, Comps(p), follow, MaxLinks)

EntryAt(fsys, loc) ==
  IF loc \in Dirs THEN [kind |-> "dir", data |-> <<>>, mode |-> 7, target |-> <<>>]
  ELSE fsys[loc]

\* os.FileInfo; a nil FileInfo has ok = FALSE
NilInfo == [ok |-> FALSE, kind |-> "none", size |-> 0, mode |-> 0, id |-> NoLoc]
InfoOfEntry(e, loc) ==
  [ok |-> TRUE, kind |-> e.kind, size |-> Len(e.data), mode |-> e.mode, id |-> loc]
InfoOf(fsys, loc) == InfoOfEntry(EntryAt(fsys, loc), loc)

\* a metadata query of the place r a path resolved to
StatAt(fsys, r) ==
  IF r.err = "nil" THEN [err |-> "nil", info |-> InfoOf(fsys, r.loc)]
  ELSE [err |-> r.err, info |-> NilInfo]

Stat(fsys, p) == StatAt(fsys, Resolve(fsys, p, TRUE))
Lstat(fsys, p) == StatAt(fsys, Resolve(fsys, p, FALSE))

\* os.SameFile: false unless both are FileInfo values of this package
SameFile(fi1, fi2) == fi1.ok /\ fi2.ok /\ fi1.id = fi2.id

IsNotExist(err) == err = "ENOENT"

Readable(mode) == (mode \div 4) % 2 = 1
Writable(mode) == (mode \div 2) % 2 = 1

(***************************************************************************)
(* The operating system calls the program makes.                           *)
(***************************************************************************)
\* what a call returns: the error, the file system it leaves, the places it
\* opened for reading (rd) and created or truncated (wr), the bytes io.Copy
\* moved (n, -1 when io.Copy did not run), and whether clonefile was tried
Ret(err, fsys) ==
  [err |-> err, fs |-> fsys, rd |-> {}, wr |-> {}, n |-> -1, size |-> -1, clone |-> FALSE]

\* os.Readlink of a path that Lstat reported as a symbolic link
Readlink(fsys, p) == fsys[Resolve(fsys, p, FALSE).loc].target

\* os.Symlink(oldname, newname): newname must not exist, its directory must
SymlinkAt(fsys, oldname, r) ==
  IF r.err = "nil" THEN Ret("EEXIST", fsys)
  ELSE IF r.err = "ENOENT" /\ r.loc \in Slots
    THEN [Ret("nil", [fsys EXCEPT ![r.loc] = Link(oldname)]) EXCEPT !.wr = {r.loc}]
  ELSE Ret(r.err, fsys)

Symlink(fsys, oldname, newname) == SymlinkAt(fsys, oldname, Resolve(fsys, newname, FALSE))

\* os.Open(name): O_RDONLY, follows symbolic links; opening a named pipe
\* for reading waits for a writer
OpenEntry(r, e) ==
  IF e.kind = "fifo" THEN [err |-> "blocks", loc |-> r.loc]
  ELSE IF e.kind = "file" /\ ~Readable(e.mode) THEN [err |-> "EACCES", loc |-> r.loc]
  ELSE r

OpenAt(fsys, r) == IF r.err # "nil" THEN r ELSE OpenEntry(r, EntryAt(fsys, r.loc))

Open(fsys, p) == OpenAt(fsys, Resolve(fsys, p, TRUE))

\* the file that os.Create makes: empty, mode 0666 less the umask
NewFile == File(<<>>, 6)

CreateNew(fsys, r) ==
  IF r.err = "ENOENT" /\ r.loc \in Slots
    THEN [err |-> "nil", loc |-> r.loc, fs |-> [fsys EXCEPT ![r.loc] = NewFile]]
  ELSE [err |-> r.err, loc |-> NoLoc, fs |-> fsys]

CreateOver(fsys, r, e) ==
  IF e.kind = "dir" THEN [err |-> "EISDIR", loc |-> r.loc, fs |-> fsys]
  ELSE IF e.kind = "fifo" THEN [err |-> "blocks", loc |-> r.loc, fs |-> fsys]
  ELSE IF ~(Readable(e.mode) /\ Writable(e.mode))
    THEN [err |-> "EACCES", loc |-> r.loc, fs |-> fsys]
  ELSE [err |-> "nil", loc |-> r.loc,
        fs |-> [fsys EXCEPT ![r.loc] = [@ EXCEPT !.data = <<>>]]]

CreateAt(fsys, r) ==
  IF r.err = "nil" THEN CreateOver(fsys, r, EntryAt(fsys, r.loc)) ELSE CreateNew(fsys, r)

CreateExclusiveAt(fsys, r) ==
  IF r.err = "nil" THEN [err |-> "EEXIST", loc |-> r.loc, fs |-> fsys]
  ELSE CreateNew(fsys, r)

\* os.Create as it would be with O_EXCL: an existing name is an error
CreateExclusive(fsys, p) == CreateExclusiveAt(fsys, Resolve(fsys, p, TRUE))

\* os.Create(name): O_RDWR|O_CREATE|O_TRUNC, follows symbolic links
Create(fsys, p) == CreateAt(fsys, Resolve(fsys, p, TRUE))

\* os.Chmod(name, mode): follows symbolic links, sets the permission bits
ChmodAt(fsys, r, mode) ==
  IF r.err # "nil" THEN [err |-> r.err, fs |-> fsys]
  ELSE IF r.loc \in Slots /\ fsys[r.loc].kind = "file"
    THEN [err |-> "nil", fs |-> [fsys EXCEPT ![r.loc] = [@ EXCEPT !.mode = mode]]]
  ELSE [err |-> "nil", fs |-> fsys]

Chmod(fsys, p, mode) == ChmodAt(fsys, Resolve(fsys, p, TRUE), mode)

\* filepath.Base and filepath.Join on the path strings used here
Base(p) == <<p[Len(p)]>>
Join(dir, base) == dir \o base

(***************************************************************************)
(* shutil.go.  A function is written as a chain of operators, one for each *)
(* stretch of the code between two calls whose result it keeps.            *)
(***************************************************************************)
\* samefile as it would be with os.Lstat: a symbolic link and its target differ
samefileNoFollow(fsys, src, dst) ==
  SameFile(Lstat(fsys, src).info, Lstat(fsys, dst).info)

\* samefile as it would be without the check
samefileNever(fsys, src, dst) == FALSE

samefile(fsys, src, dst) ==
  LET srcInfo == Stat(fsys, src).info
      dstInfo == Stat(fsys, dst).info
  IN SameFile(srcInfo, dstInfo)

\* specialfile as it would be if it tested another mode bit
specialfileNever(fi) == fi.kind = "socket"

specialfile(fi) == fi.kind = "fifo"

IsSymlink(fi) == fi.kind = "symlink"

\* the system call of clonefile (BTRFS_IOC_CLONE on the two descriptors):
\* on success the destination shares the source's data
clonefile(fsys, fdst, fsrc, ioctlOk) ==
  IF ioctlOk
    THEN [ok |-> TRUE, err |-> "nil",
          fs |-> [fsys EXCEPT ![fdst] = [@ EXCEPT !.data = fsys[fsrc].data]]]
  ELSE [ok |-> FALSE, err |-> "errno", fs |-> fsys]

\* the comparison as it would be if only a short copy were an error
SizeCheckShort(size, srcStat) == IF size < srcStat.size THEN "SizeMismatch" ELSE "nil"

\* the comparison after io.Copy: size is what io.Copy returned
SizeCheck(size, srcStat) == IF size # srcStat.size THEN "SizeMismatch" ELSE "nil"

\* io.Copy(fdst, fsrc) and the comparison: e is the file behind fsrc, as the
\* create of fdst left it; reading a directory is an error
IoCopy(fsrc, fdst, srcStat, e) ==
  IF e.kind = "dir"
    THEN [err |-> "EISDIR", fs |-> fdst.fs, rd |-> {fsrc.loc}, wr |-> {fdst.loc},
          n |-> 0, size |-> srcStat.size, clone |-> FALSE]
  ELSE [err |-> SizeCheck(Len(e.data), srcStat),
        fs |-> [fdst.fs EXCEPT ![fdst.loc] = [@ EXCEPT !.data = e.data]],
        rd |-> {fsrc.loc}, wr |-> {fdst.loc},
        n |-> Len(e.data), size |-> srcStat.size, clone |-> FALSE]

\* after os.Create(dst)
CopyInto(fsys, srcStat, fsrc, fdst) ==
  IF fdst.err # "nil" THEN [Ret(fdst.err, fsys) EXCEPT !.rd = {fsrc.loc}]
  ELSE IoCopy(fsrc, fdst, srcStat, EntryAt(fdst.fs, fsrc.loc))

\* after os.Open(src)
CopyFrom(fsys, dst, srcStat, fsrc) ==
  IF fsrc.err # "nil" THEN Ret(fsrc.err, fsys)
  ELSE CopyInto(fsys, srcStat, fsrc, Create(fsys, dst))

\* CopyFile from "Do the actual copy" on: src is the path that is opened,
\* srcStat the FileInfo whose size is compared
DoCopy(fsys, src, dst, srcStat) == CopyFrom(fsys, dst, srcStat, Open(fsys, src))

\* "If we are a symlink, follow it": after os.Stat of the link's target string
CopyFollowed(fsys, src, dst, s) ==
  IF s.err # "nil" THEN Ret(s.err, fsys) ELSE DoCopy(fsys, src, dst, s.info)

\* after os.Readlink(src): the target string is the new src
CopyTarget(fsys, src, dst) == CopyFollowed(fsys, src, dst, Stat(fsys, src))

\* after os.Stat(dst)
CopyFileDst(fsys, src, dst, followSymlinks, srcStat, d) ==
  IF d.err # "nil" /\ ~IsNotExist(d.err) THEN Ret(d.err, fsys)
  ELSE IF d.err = "nil" /\ specialfile(d.info) THEN Ret("SpecialFileError", fsys)
  ELSE IF ~followSymlinks /\ IsSymlink(srcStat) THEN Symlink(fsys, src, dst)
  ELSE IF IsSymlink(srcStat) THEN CopyTarget(fsys, Readlink(fsys, src), dst)
  ELSE DoCopy(fsys, src, dst, srcStat)

\* after os.Lstat(src)
CopyFileSrc(fsys, src, dst, followSymlinks, s) ==
  IF s.err # "nil" THEN Ret(s.err, fsys)
  ELSE IF specialfile(s.info) THEN Ret("SpecialFileError", fsys)
  ELSE CopyFileDst(fsys, src, dst, followSymlinks, s.info, Stat(fsys, dst))

CopyFile(fsys, src, dst, followSymlinks) ==
  IF samefile(fsys, src, dst) THEN Ret("SameFileError", fsys)
  ELSE CopyFileSrc(fsys, src, dst, followSymlinks, Lstat(fsys, src))

\* after os.Chmod
ChmodReturned(c) == Ret(c.err, c.fs)

\* after the second os.Stat(src), whose error is dropped: srcStat.Mode() on a
\* nil FileInfo panics
CopyModeSet(fsys, dst, srcStat) ==
  IF ~srcStat.ok THEN Ret("panic", fsys)
  ELSE ChmodReturned(Chmod(fsys, dst, srcStat.mode))

\* after os.Lstat(dst)
CopyModeDst(fsys, src, dst, followSymlinks, s, d) ==
  IF d.err # "nil" THEN Ret(d.err, fsys)
  ELSE IF ~followSymlinks /\ IsSymlink(s.info) /\ IsSymlink(d.info) THEN Ret("nil", fsys)
  ELSE CopyModeSet(fsys, dst, Stat(fsys, src).info)

\* after os.Lstat(src)
CopyModeSrc(fsys, src, dst, followSymlinks, s) ==
  IF s.err # "nil" THEN Ret(s.err, fsys)
  ELSE CopyModeDst(fsys, src, dst, followSymlinks, s, Lstat(fsys, dst))

CopyMode(fsys, src, dst, followSymlinks) ==
  CopyModeSrc(fsys, src, dst, followSymlinks, Lstat(fsys, src))

\* Copy returns the destination and the error; after CopyMode
CopyModeDone(dst, cf, cm) == [path |-> dst, r |-> [cf EXCEPT !.err = cm.err, !.fs = cm.fs]]

\* after CopyFile
CopyFileDone(src, dst, followSymlinks, cf) ==
  IF cf.err # "nil" THEN [path |-> dst, r |-> cf]
  ELSE CopyModeDone(dst, cf, CopyMode(cf.fs, src, dst, followSymlinks))

\* with the destination settled
CopyTo(fsys, src, dst, followSymlinks) ==
  CopyFileDone(src, dst, followSymlinks, CopyFile(fsys, src, dst, followSymlinks))

\* after os.Stat(dst)
CopyDst(fsys, src, dst, followSymlinks, d) ==
  IF d.err = "nil" /\ d.info.kind = "dir"
    THEN CopyTo(fsys, src, Join(dst, Base(src)), followSymlinks)
  ELSE IF d.err # "nil" /\ ~IsNotExist(d.err) THEN [path |-> dst, r |-> Ret(d.err, fsys)]
  ELSE CopyTo(fsys, src, dst, followSymlinks)

Copy(fsys, src, dst, followSymlinks) ==
  CopyDst(fsys, src, dst, followSymlinks, Stat(fsys, dst))

(***************************************************************************)
(* The callers.  A caller hands one of the three functions a request of    *)
(* path strings; Copy may then be called once more with the same request.  *)
(***************************************************************************)
SrcPaths == {<<"a">>, <<"/", "a">>, <<"d", "a">>, <<"b">>, <<"d">>}
DstPaths == {<<"a">>, <<"b">>, <<"d", "a">>, <<"d", "b">>, <<"d">>, <<"/">>}

\* what each name may hold when the caller arrives
Files(byte) == {File(<<byte>>, 6), File(<<byte>>, 4), File(<<>>, 6)}
InitEntries(slot) ==
  CASE slot = <<"a">> -> {NoEntry, Fifo, Link(<<"b">>), Link(<<"/", "d", "a">>)} \cup Files(1)
    [] slot = <<"b">> -> {NoEntry, Fifo, Link(<<"/", "d", "b">>)} \cup Files(2)
    [] slot = <<"d", "a">> -> {NoEntry, Link(<<"b">>)} \cup Files(3)
    [] slot = <<"d", "b">> -> {NoEntry} \cup Files(4)
    [] OTHER -> {NoEntry}

NoCall == [op |-> "none", src |-> <<>>, dst |-> <<>>, follow |-> FALSE]
NoRes == [err |-> "none", path |-> <<>>, rd |-> {}, wr |-> {}, n |-> -1, size |-> -1,
          clone |-> FALSE]
NoProc == [pc |-> "none"]

Result(path, r) ==
  [err |-> r.err, path |-> path, rd |-> r.rd, wr |-> r.wr, n |-> r.n, size |-> r.size,
   clone |-> r.clone]

Init ==
  /\ \E a \in InitEntries(<<"a">>), b \in InitEntries(<<"b">>),
        da \in InitEntries(<<"d", "a">>), db \in InitEntries(<<"d", "b">>) :
       fs = [s \in Slots |-> IF s = <<"a">> THEN a
                             ELSE IF s = <<"b">> THEN b
                             ELSE IF s = <<"d", "a">> THEN da
                             ELSE IF s = <<"d", "b">> THEN db
                             ELSE NoEntry]
  /\ fs0 = fs
  /\ fsFirst = fs
  /\ call = NoCall
  /\ res = NoRes
  /\ prev = NoRes
  /\ phase = "idle"
  /\ proc = NoProc
  /\ muts = 0

Returned(op, src, dst, follow, path, r) ==
  /\ fs0' = fs
  /\ fsFirst' = fs0
  /\ fs' = r.fs
  /\ call' = [op |-> op, src |-> src, dst |-> dst, follow |-> follow]
  /\ prev' = res
  /\ res' = Result(path, r)
  /\ UNCHANGED <<proc, muts>>

ReturnedCopy(src, dst, follow, c) == Returned("Copy", src, dst, follow, c.path, c.r)

CallCopyFile ==
  /\ phase = "idle"
  /\ \E src \in SrcPaths, dst \in DstPaths, follow \in BOOLEAN :
       Returned("CopyFile", src, dst, follow, dst, CopyFile(fs, src, dst, follow))
  /\ phase' = "called"

CallCopyMode ==
  /\ phase = "idle"
  /\ \E src \in SrcPaths, dst \in DstPaths, follow \in BOOLEAN :
       Returned("CopyMode", src, dst, follow, dst, CopyMode(fs, src, dst, follow))
  /\ phase' = "called"

CallCopy ==
  /\ phase = "idle"
  /\ \E src \in SrcPaths, dst \in DstPaths, follow \in BOOLEAN :
       ReturnedCopy(src, dst, follow, Copy(fs, src, dst, follow))
  /\ phase' = "called"

CallCopyAgain ==
  /\ phase = "called"
  /\ call.op = "Copy"
  /\ ReturnedCopy(call.src, call.dst, call.follow, Copy(fs, call.src, call.dst, call.follow))
  /\ phase' = "repeated"

Next == CallCopyFile \/ CallCopyMode \/ CallCopy \/ CallCopyAgain

Spec == Init /\ [][Next]_vars

(***************************************************************************)
(* One CopyFile call, system call by system call, while another process    *)
(* appends to or truncates the file src names.                             *)
(***************************************************************************)
RaceSrc == <<"a">>
RaceFile == <<"d", "b">>
RaceData == {[i \in 1..k |-> 1] : k \in 0..MaxSize}

InitRace ==
  /\ \E data \in RaceData, islink \in BOOLEAN, b \in {NoEntry, File(<<2>>, 6)} :
       LET a == IF islink THEN Link(<<"/", "d", "b">>) ELSE File(data, 6) IN
       fs = [s \in Slots |-> IF s = <<"a">> THEN a
                             ELSE IF s = <<"b">> THEN b
                             ELSE IF s = RaceFile /\ a.kind = "symlink" THEN File(data, 6)
                             ELSE NoEntry]
  /\ fs0 = fs
  /\ fsFirst = fs
  /\ \E follow \in BOOLEAN :
       call = [op |-> "CopyFile", src |-> RaceSrc, dst |-> <<"b">>, follow |-> follow]
  /\ res = NoRes
  /\ prev = NoRes
  /\ phase = "race"
  /\ proc = [pc |-> "samefile", src |-> RaceSrc, srcStat |-> NilInfo, fsrc |-> NoLoc,
             fdst |-> NoLoc, n |-> -1, err |-> "none", tries |-> 0]
  /\ muts = 0

\* the file another process changes: the one src names
Victim == Resolve(fs, RaceSrc, TRUE).loc

Done(err) == proc' = [proc EXCEPT !.pc = "done", !.err = err]
Goto(pc) == proc' = [proc EXCEPT !.pc = pc]
Frame == UNCHANGED <<fs0, fsFirst, call, res, prev, phase, muts>>

StepSameFile ==
  /\ phase = "race" /\ proc.pc = "samefile"
  /\ IF samefile(fs, proc.src, call.dst) THEN Done("SameFileError") ELSE Goto("lstat")
  /\ UNCHANGED fs /\ Frame

StepLstat ==
  /\ phase = "race" /\ proc.pc = "lstat"
  /\ LET s == Lstat(fs, proc.src)
     IN IF s.err # "nil" THEN Done(s.err)
        ELSE IF specialfile(s.info) THEN Done("SpecialFileError")
        ELSE proc' = [proc EXCEPT !.pc = "statdst", !.srcStat = s.info]
  /\ UNCHANGED fs /\ Frame

StepStatDst ==
  /\ phase = "race" /\ proc.pc = "statdst"
  /\ LET d == Stat(fs, call.dst)
     IN IF d.err # "nil" /\ ~IsNotExist(d.err) THEN Done(d.err)
        ELSE IF d.err = "nil" /\ specialfile(d.info) THEN Done("SpecialFileError")
        ELSE Goto("symlink")
  /\ UNCHANGED fs /\ Frame

StepSymlink ==
  /\ phase = "race" /\ proc.pc = "symlink"
  /\ IF ~call.follow /\ IsSymlink(proc.srcStat)
       THEN LET r == Symlink(fs, proc.src, call.dst)
            IN fs' = r.fs /\ Done(r.err)
     ELSE UNCHANGED fs /\ Goto("follow")
  /\ Frame

StepFollow ==
  /\ phase = "race" /\ proc.pc = "follow"
  /\ IF IsSymlink(proc.srcStat)
       THEN LET src2 == Readlink(fs, proc.src)
                s2 == Stat(fs, src2)
            IN IF s2.err # "nil" THEN Done(s2.err)
               ELSE proc' = [proc EXCEPT !.pc = "open", !.src = src2, !.srcStat = s2.info]
     ELSE Goto("open")
  /\ UNCHANGED fs /\ Frame

StepOpen ==
  /\ phase = "race" /\ proc.pc = "open"
  /\ LET fsrc == Open(fs, proc.src)
     IN IF fsrc.err # "nil" THEN Done(fsrc.err)
        ELSE proc' = [proc EXCEPT !.pc = "create", !.fsrc = fsrc.loc]
  /\ UNCHANGED fs /\ Frame

StepCreate ==
  /\ phase = "race" /\ proc.pc = "create"
  /\ LET fdst == Create(fs, call.dst)
     IN IF fdst.err # "nil" THEN UNCHANGED fs /\ Done(fdst.err)
        ELSE /\ fs' = fdst.fs
             /\ proc' = [proc EXCEPT !.pc = "copy", !.fdst = fdst.loc, !.n = 0,
                                     !.tries = @ + 1]
  /\ Frame

\* io.Copy: read the next byte of fsrc and write it to fdst, until end of file
StepCopy ==
  /\ phase = "race" /\ proc.pc = "copy"
  /\ LET data == fs[proc.fsrc].data
     IN IF proc.n < Len(data)
          THEN /\ fs' = [fs EXCEPT ![proc.fdst] = [@ EXCEPT !.data = Append(@, data[proc.n + 1])]]
               /\ proc' = [proc EXCEPT !.n = @ + 1]
        ELSE UNCHANGED fs /\ Goto("check")
  /\ Frame

StepCheck ==
  /\ phase = "race" /\ proc.pc = "check"
  /\ Done(SizeCheck(proc.n, proc.srcStat))
  /\ UNCHANGED fs /\ Frame

WriterAppend ==
  /\ phase = "race" /\ proc.pc # "done" /\ muts < MaxMuts
  /\ Victim \in Slots /\ fs[Victim].kind = "file" /\ Len(fs[Victim].data) < MaxSize
  /\ fs' = [fs EXCEPT ![Victim] = [@ EXCEPT !.data = Append(@, 9)]]
  /\ muts' = muts + 1
  /\ UNCHANGED <<fs0, fsFirst, call, res, prev, phase, proc>>

WriterTruncate ==
  /\ phase = "race" /\ proc.pc # "done" /\ muts < MaxMuts
  /\ Victim \in Slots /\ fs[Victim].kind = "file"
  /\ \E k \in 0..(Len(fs[Victim].data) - 1) :
       fs' = [fs EXCEPT ![Victim] = [@ EXCEPT !.data = SubSeq(@, 1, k)]]
  /\ muts' = muts + 1
  /\ UNCHANGED <<fs0, fsFirst, call, res, prev, phase, proc>>

NextRace ==
  \/ StepSameFile \/ StepLstat \/ StepStatDst \/ StepSymlink \/ StepFollow
  \/ StepOpen \/ StepCreate \/ StepCopy \/ StepCheck
  \/ WriterAppend \/ WriterTruncate

SpecRace == InitRace /\ [][NextRace]_vars

(***************************************************************************)
(* Vocabulary of the properties.  A returned call leaves: call (the        *)
(* request), fs0 (the file system before), fs (after), res (the result).   *)
(***************************************************************************)
ReturnedFrom(op) == phase \in {"called", "repeated"} /\ call.op = op

\* the entry a path names (not following a final symbolic link) and the
\* entry it resolves to
SrcEntry == Lstat(fs0, call.src)
SrcFile == Stat(fs0, call.src)
DstEntry == Lstat(fs0, call.dst)
DstFile == Stat(fs0, call.dst)

DataAt(fsys, p) == EntryAt(fsys, Resolve(fsys, p, TRUE).loc).data

\* src is an input of the byte-copy path: a regular file, or with
\* followSymlinks a symbolic link that resolves to a regular file
ByteCopyInput ==
  /\ SrcFile.err = "nil" /\ SrcFile.info.kind = "file"
  /\ SrcEntry.info.kind = "file" \/ (call.follow /\ SrcEntry.info.kind = "symlink")

\* dst is absent, or a regular file other than the one src resolves to that
\* the caller may open for writing
DstFree ==
  \/ DstEntry.err = "ENOENT"
  \/ /\ DstEntry.err = "nil" /\ DstEntry.info.kind = "file"
     /\ DstEntry.info.id # SrcFile.info.id
     /\ Readable(DstEntry.info.mode) /\ Writable(DstEntry.info.mode)

(***************************************************************************)
(* C1.  CopyFile on the byte-copy path: when it returns success, dst is a  *)
(* regular file with the bytes and the size of the file src resolves to;   *)
(* and with dst absent or a different regular file it does return success. *)
(* It fails for a symbolic link with a relative target in another          *)
(* directory than the working directory.                                   *)
(***************************************************************************)
C1_ByteCopy ==
  (ReturnedFrom("CopyFile") /\ ByteCopyInput) =>
     /\ res.err = "nil" =>
          /\ Stat(fs, call.dst).err = "nil"
          /\ Stat(fs, call.dst).info.kind = "file"
          /\ DataAt(fs, call.dst) = DataAt(fs0, call.src)
          /\ Stat(fs, call.dst).info.size = SrcFile.info.size
     /\ DstFree => res.err = "nil"

(***************************************************************************)
(* C2.  As claimed: CopyFile(F, F, true) returns SameFileError for every F *)
(* that exists as an entry, a symbolic link without target included.       *)
(***************************************************************************)
C2_Original ==
  (ReturnedFrom("CopyFile") /\ call.follow /\ call.src = call.dst /\ SrcEntry.err = "nil")
     => res.err = "SameFileError"

(***************************************************************************)
(* C2, amended.  CopyFile returns SameFileError exactly when the followed  *)
(* metadata queries of src and dst both succeed and give the same file; a  *)
(* failed query counts as not the same file, so CopyFile(F, F, true) of a  *)
(* symbolic link whose target is missing does not return SameFileError.    *)
(***************************************************************************)
C2_SameFile ==
  ReturnedFrom("CopyFile") =>
     /\ (SrcFile.err = "nil" /\ DstFile.err = "nil" /\ SrcFile.info.id = DstFile.info.id)
           => res.err = "SameFileError"
     /\ (SrcFile.err # "nil" \/ DstFile.err # "nil") => res.err # "SameFileError"

\* CopyFile(S, S, true) of a symbolic link S with a target was refused
C2_Witness ==
  /\ ReturnedFrom("CopyFile") /\ call.follow /\ call.src = call.dst
  /\ SrcEntry.info.kind = "symlink" /\ res.err = "SameFileError"

\* CopyFile(S, S, true) of a symbolic link without target returned not-found
C2_WitnessDangling ==
  /\ ReturnedFrom("CopyFile") /\ call.follow /\ call.src = call.dst
  /\ SrcEntry.info.kind = "symlink" /\ SrcFile.err = "ENOENT" /\ res.err = "ENOENT"

(***************************************************************************)
(* C3.  CopyFile(S, D, false) of a symbolic link S with target string T    *)
(* and D absent: success, D is a symbolic link with target string T, and   *)
(* nothing was opened for reading.                                         *)
(***************************************************************************)
C3_SymlinkTarget ==
  (/\ ReturnedFrom("CopyFile") /\ ~call.follow
   /\ SrcEntry.err = "nil" /\ SrcEntry.info.kind = "symlink"
   /\ DstEntry.err = "ENOENT") =>
     /\ res.err = "nil"
     /\ Lstat(fs, call.dst).info.kind = "symlink"
     /\ Readlink(fs, call.dst) = Readlink(fs0, call.src)
     /\ res.rd = {}

(***************************************************************************)
(* C4.  As claimed: a named pipe at src or at dst makes CopyFile return    *)
(* SpecialFileError, whatever the other path is.                           *)
(***************************************************************************)
PipeInvolved ==
  \/ SrcEntry.err = "nil" /\ SrcEntry.info.kind = "fifo"
  \/ DstEntry.err = "nil" /\ DstEntry.info.kind = "fifo"

C4_Original ==
  (ReturnedFrom("CopyFile") /\ PipeInvolved) =>
     res.err = "SpecialFileError" /\ res.rd = {} /\ res.wr = {} /\ fs = fs0

(***************************************************************************)
(* C4, amended.  With a named pipe at src or at dst, CopyFile opens,       *)
(* creates and truncates nothing and returns SameFileError when src and    *)
(* dst are the same file, else the error of the query of src when src does *)
(* not exist, else SpecialFileError.                                       *)
(***************************************************************************)
C4_SpecialFile ==
  (ReturnedFrom("CopyFile") /\ PipeInvolved) =>
     /\ res.rd = {} /\ res.wr = {} /\ fs = fs0
     /\ res.err = IF SameFile(SrcFile.info, DstFile.info) THEN "SameFileError"
                  ELSE IF SrcEntry.err # "nil" THEN SrcEntry.err
                  ELSE "SpecialFileError"

\* a named pipe at dst, another existing entry at src: SpecialFileError
C4_Witness ==
  /\ ReturnedFrom("CopyFile") /\ DstEntry.info.kind = "fifo"
  /\ SrcEntry.info.kind = "file" /\ res.err = "SpecialFileError"

\* a named pipe at src: SpecialFileError
C4_WitnessSrc ==
  /\ ReturnedFrom("CopyFile") /\ SrcEntry.info.kind = "fifo"
  /\ DstEntry.err = "ENOENT" /\ res.err = "SpecialFileError"

(***************************************************************************)
(* C5.  Every CopyFile call that reaches the data copy (both files open)   *)
(* has tried clonefile on them first.                                      *)
(***************************************************************************)
C5_CloneFirst ==
  (ReturnedFrom("CopyFile") /\ res.rd # {} /\ res.wr # {}) => res.clone

(***************************************************************************)
(* C6.  Copy into an existing directory returns dirPath/basename(src) on   *)
(* success, that path exists and reads as src reads; with dst not an       *)
(* existing directory the returned path is dst.                            *)
(***************************************************************************)
SameRead(fsys, p, q) ==
  /\ Stat(fsys, p).err = Stat(fsys, q).err
  /\ Stat(fsys, p).info.kind = Stat(fsys, q).info.kind
  /\ DataAt(fsys, p) = DataAt(fsys, q)

C6_IntoDirectory ==
  (/\ phase = "called" /\ call.op = "Copy"
   /\ SrcEntry.err = "nil" /\ SrcEntry.info.kind \in {"file", "symlink"}) =>
     IF DstFile.err = "nil" /\ DstFile.info.kind = "dir"
       THEN res.err = "nil" =>
              /\ res.path = Join(call.dst, Base(call.src))
              /\ Lstat(fs, res.path).err = "nil"
              /\ SameRead(fs, res.path, call.src)
     ELSE res.path = call.dst

(***************************************************************************)
(* C7.  As claimed: a second Copy with the same request, after a first     *)
(* that returned no error, returns no error and leaves dst as it was       *)
(* after the first.                                                        *)
(***************************************************************************)
\* in the state after the second call, fsFirst is the file system before the
\* first call and fs0 the one the first call left; dst is not src when the
\* two paths did not name the same entry or the same file
SecondCopy ==
  /\ phase = "repeated" /\ prev.err = "nil"
  /\ Lstat(fsFirst, call.src).info.kind \in {"file", "symlink"}
  /\ Lstat(fsFirst, call.src).info.id # Lstat(fsFirst, prev.path).info.id
  /\ ~samefile(fsFirst, call.src, prev.path)

SameOutcome ==
  /\ res.err = "nil"
  /\ res.path = prev.path
  /\ Lstat(fs, res.path) = Lstat(fs0, res.path)
  /\ DataAt(fs, res.path) = DataAt(fs0, res.path)

C7_Original == SecondCopy => SameOutcome

(***************************************************************************)
(* C7, amended.  Copy is idempotent on the byte-copy path with a source    *)
(* the owner may write: when src is a regular file, or followSymlinks is   *)
(* set and src is a symbolic link that resolves to a regular file, and the *)
(* mode of that file (which the first call copies to dst) has the owner's  *)
(* write bit, a second call after a first that returned no error returns   *)
(* no error and leaves dst as after the first.                             *)
(***************************************************************************)
C7_Idempotent ==
  (/\ SecondCopy
   /\ call.follow \/ Lstat(fsFirst, call.src).info.kind = "file"
   /\ Stat(fsFirst, call.src).info.kind = "file"
   /\ Writable(Stat(fsFirst, call.src).info.mode)) => SameOutcome

\* the second Copy of a regular file onto the copy the first call made
C7_Witness ==
  /\ SecondCopy /\ Lstat(fsFirst, call.src).info.kind = "file" /\ res.err = "nil"
  /\ res.wr # {} /\ DataAt(fs, res.path) # <<>>

\* the second Copy of a symbolic link with followSymlinks
C7_WitnessLink ==
  /\ SecondCopy /\ Lstat(fsFirst, call.src).info.kind = "symlink" /\ call.follow
  /\ Stat(fsFirst, call.src).info.kind = "file" /\ res.err = "nil"

(***************************************************************************)
(* C8.  CopyMode returns every failure of its metadata queries and of the  *)
(* chmod to the caller, and never aborts.                                  *)
(***************************************************************************)
C8_ErrorsReturned ==
  ReturnedFrom("CopyMode") =>
     /\ res.err # "panic"
     /\ SrcEntry.err # "nil" => res.err = SrcEntry.err
     /\ (SrcEntry.err = "nil" /\ DstEntry.err # "nil") => res.err = DstEntry.err
     /\ (/\ SrcEntry.err = "nil" /\ DstEntry.err = "nil"
         /\ ~(~call.follow /\ IsSymlink(SrcEntry.info) /\ IsSymlink(DstEntry.info))
         /\ SrcFile.err # "nil") => res.err = SrcFile.err

(***************************************************************************)
(* C9.  A CopyFile call that ran io.Copy while another process changed the *)
(* size of src returns success only if the bytes moved equal the size its  *)
(* metadata query recorded; any other count gives the size-mismatch error, *)
(* after one attempt, with the partial dst left in place.                  *)
(***************************************************************************)
C9_SizeVerified ==
  (phase = "race" /\ proc.pc = "done" /\ proc.n >= 0) =>
     /\ fs[proc.fdst].kind = "file" /\ Len(fs[proc.fdst].data) = proc.n
     /\ proc.err = "nil" => Len(fs[proc.fdst].data) = proc.srcStat.size
     /\ proc.n # proc.srcStat.size => proc.err = "SizeMismatch"
     /\ proc.tries = 1

\* src changed under the copy and the call reported the mismatch
C9_Witness ==
  /\ phase = "race" /\ proc.pc = "done" /\ muts > 0
  /\ proc.n > 0 /\ proc.n # proc.srcStat.size /\ proc.err = "SizeMismatch"

\* src changed under the copy and the count still matched
C9_WitnessSuccess ==
  /\ phase = "race" /\ proc.pc = "done" /\ muts > 0
  /\ proc.n = proc.srcStat.size /\ proc.err = "nil" /\ fs[proc.fdst].data # fs0[Victim].data

(***************************************************************************)
(* C10.  Whatever CopyFile returns: the entry at src and the file src      *)
(* resolves to are as before, every entry that existed still exists with   *)
(* its kind, and after SameFileError, SpecialFileError or not-found the    *)
(* file system as a whole is as before.                                    *)
(***************************************************************************)
C10_Frame ==
  ReturnedFrom("CopyFile") =>
     /\ SrcEntry.err = "nil" => EntryAt(fs, SrcEntry.info.id) = EntryAt(fs0, SrcEntry.info.id)
     /\ SrcFile.err = "nil" => EntryAt(fs, SrcFile.info.id) = EntryAt(fs0, SrcFile.info.id)
     /\ \A s \in Slots : fs0[s].kind # "none" => fs[s].kind = fs0[s].kind
     /\ DstEntry.err = "nil" => Lstat(fs, call.dst).err = "nil"
     /\ res.err \in {"SameFileError", "SpecialFileError", "ENOENT"} => fs = fs0

\* CopyFile overwrote a dst that existed
C10_Witness ==
  /\ ReturnedFrom("CopyFile") /\ res.err = "nil" /\ res.wr # {}
  /\ DstEntry.err = "nil" /\ fs # fs0

\* CopyFile refused to copy a regular file onto itself
C10_WitnessSame ==
  /\ ReturnedFrom("CopyFile") /\ res.err = "SameFileError" /\ SrcFile.info.kind = "file"

====
